---- MODULE Spec2Model ----
(***************************************************************************)
(* The asynchronous bulk-unsubscribe subsystem: the async submit route,    *)
(* the Bull queue that carries one task per eligible email, and the worker *)
(* handler registered with unsubscribeQueue.process('unsubscribe-email').  *)
(*                                                                         *)
(* Every awaited statement of the worker handler is one step, so that      *)
(* handlers of different tasks interleave statement by statement and a     *)
(* database error can strike at any statement.  One BatchJob is followed:  *)
(* every statement addresses its row by `WHERE id = $1`, so rows of        *)
(* different jobs never interact.  The status route and the               *)
(* UnsubscribeService the worker calls for each attempt are modelled too:  *)
(* unsubscribeFromEmail runs await by await, for overlapping calls.        *)
(***************************************************************************)
EXTENDS Integers, FiniteSets, Sequences, Bags, TLC

(* ------------------------------ bounds --------------------------------- *)

\* Emails of the caller that carry an unsubscribe link.
MaxEmails == 2

\* Faults of the environment in one run: database outages and worker crashes.
MaxFaults == 1

\* Instants of the database clock NOW() beyond the first.
MaxClock == 1

\* Longest emailIds array of a request body.
MaxRequested == 3

\* Calls of unsubscribeFromEmail in flight at once in one process.
MaxCalls == 2

(* ------------------------- program constants --------------------------- *)

\* attempts: 3 in the job options of unsubscribeQueue.add
attempts == 3

\* concurrency: 5, the worker pool size
concurrency == 5

\* const maxRetries = 3 of the navigation loop
maxRetries == 3

NULL == "null"

\* A timestamp column is the set of its value: empty when the column is NULL.
NullTime == {}

\* No row in table unsubscribe_jobs yet.
NoJob ==
    [user_id |-> NULL, total_emails |-> 0, processed_count |-> 0, success_count |-> 0,
     failed_count |-> 0, status |-> "absent", completed_at |-> NullTime]

Caller == "caller"

OtherUser == "other user"

\* The inbox: the caller's emails with a link, one email of another user, and
\* one email of the caller without a link.  unsubscribe_status starts at its
\* column default, 'pending'.
EligibleIds == 1..MaxEmails

UnownedId == MaxEmails + 1

LinklessId == MaxEmails + 2

EmailIds == 1..(MaxEmails + 2)

\* An id of no row of table emails.
UnknownId == MaxEmails + 3

\* req.body of POST /unsubscribe/async/batch: emailIds is an array of ids,
\* duplicates and ids of no row included, or something that is no array.
AsyncBatchBodies ==
    {[isArray |-> FALSE, emailIds |-> << >>]}
    \cup {[isArray |-> TRUE, emailIds |-> ids] :
              ids \in UNION {[1..n -> EmailIds \cup {UnknownId}] : n \in 0..MaxRequested}}

\* The id of the BatchJob followed, a well-formed id of no BatchJob, and a
\* string the UUID pattern rejects.
BatchJobId == "batchJobId"

MissingJobId == "other uuid"

MalformedJobId == "not a uuid"

JobIds == {BatchJobId, MissingJobId, MalformedJobId}

Users == {Caller, OtherUser}

\* No route has answered yet.
NoResponse == [status |-> 0]

\* if (emailIds.length > 10) of the synchronous route
SyncBatchLimit == 10

\* req.body of POST /unsubscribe/batch: the bodies of the async route and an
\* array of one id more than the limit.
SyncBatchBodies ==
    AsyncBatchBodies
    \cup {[isArray |-> TRUE,
           emailIds |-> [i \in 1..(SyncBatchLimit + 1) |-> 1 + (i % MaxEmails)]]}

\* POST /unsubscribe/batch serves no request: result.rows, the rows the loop
\* has still to take, the row it is at, the emailError caught, the results
\* pushed, and the emails unsubscribeFromEmail was invoked for.
NoRequest ==
    [pc |-> "idle", rows |-> {}, todo |-> {}, email |-> {}, emailError |-> "",
     results |-> << >>, attempted |-> {}]

\* The batches that hold the same email, and that email.
Batches == {"A", "B"}

SharedEmail == 1

\* Neither batch is submitted; the Email row as the schema creates it.
NoOverlap ==
    [email |-> [unsubscribe_status |-> "pending", unsubscribe_result |-> NULL],
     jobs |-> [b \in Batches |-> NoJob],
     tasks |-> [b \in Batches |-> [pc |-> "none", success |-> FALSE, message |-> ""]],
     results |-> {},
     lastWrite |-> {}]

\* The tasks of one batch, one more than the worker pool runs at once.
PoolTasks == 1..(concurrency + 1)

VARIABLES
    emails,                  \* table emails: id -> row
    job,                     \* the row of table unsubscribe_jobs, or NoJob
    unsubscribe_job_results, \* table unsubscribe_job_results, a bag of rows
    queue,                   \* Bull queue 'unsubscribe': email id -> task
    handler,                 \* the running handler of each task: its position and locals
    faults,                  \* database outages and worker crashes so far
    dbUp,                    \* whether db.query succeeds at this moment
    response,                \* the response of the route that answered last
    sync,                    \* the request POST /unsubscribe/batch is serving
    overlap,                 \* two batches that hold the same email: jobs, tasks, Email row
    pool,                    \* the tasks of a batch larger than the worker pool
    invocation,              \* the running calls of unsubscribeFromEmail: position and locals
    this_stagehand,          \* this.stagehand of the UnsubscribeService singleton
    sessions,                \* the Stagehand objects created: state and calls of close()
    executor                 \* a call of performUnsubscribeAction: position and history

serviceVars == <<invocation, this_stagehand, sessions, executor>>

vars ==
    <<emails, job, unsubscribe_job_results, queue, handler, faults, dbUp,
      response, sync, overlap, pool, invocation, this_stagehand, sessions, executor>>

(* ------------------------------ helpers -------------------------------- *)

\* No execution of the handler.  inserts and increments are the history of
\* one execution: the rows it has inserted into unsubscribe_job_results and
\* the increments it has made to processed_count.
Idle == [pc |-> "idle", success |-> FALSE, inserts |-> 0, increments |-> 0]

NoTask == [state |-> "none", attemptsMade |-> 0]

\* SELECT ... WHERE id IN (...) AND user_id = $1 AND unsubscribe_link IS NOT NULL
\* Mutant of EligibleRows: the SELECT without `AND user_id = $1`.
EligibleRowsOfAnyUser(userId, emailIds) ==
    {e \in emailIds \cap DOMAIN emails : emails[e].unsubscribe_link # NULL}

EligibleRows(userId, emailIds) ==
    {e \in emailIds \cap DOMAIN emails :
        emails[e].user_id = userId /\ emails[e].unsubscribe_link # NULL}

Range(array) == {array[i] : i \in DOMAIN array}

Active == {e \in EmailIds : queue[e].state = "active"}

\* A row of unsubscribe_job_results (the serial id and processed_at left out).
ResultRow(emailId, success) == [email_id |-> emailId, success |-> success]

Insert(row) == unsubscribe_job_results (+) SetToBag({row})

RowsOf(emailId) ==
    CopiesIn(ResultRow(emailId, TRUE), unsubscribe_job_results)
    + CopiesIn(ResultRow(emailId, FALSE), unsubscribe_job_results)

\* The calls of unsubscribeFromEmail, and the Stagehand object each constructs.
Calls == 1..MaxCalls

\* No answer of the classifier yet.
NoAnalysis == [pageType |-> "none", description |-> "", errorMessage |-> {}]

\* A call not made yet: the locals of unsubscribeFromEmail, the page.goto
\* calls it has made, what the page showed to the check after the action, the
\* error its catch block caught, what it returned and whether it threw.
NotCalled ==
    [pc |-> "notCalled", stagehand |-> {}, i |-> 0, loads |-> 0, pageAnalysis |-> NoAnalysis,
     actions |-> 0, extracted |-> {}, caught |-> {}, result |-> {}, threw |-> FALSE]

NoSession == [state |-> "none", closeCalls |-> 0]

\* performUnsubscribeAction not called yet: the index of the strategy at hand
\* (0-based, as the for loop runs over the array) and, as history, what
\* happened to each strategy tried.
NotExecuting == [pc |-> "notCalled", i |-> 0, tried |-> << >>]

(* ------------------------------- Init ---------------------------------- *)

Init ==
    /\ emails = [e \in EmailIds |->
                    [user_id |-> IF e = UnownedId THEN OtherUser ELSE Caller,
                     unsubscribe_link |-> IF e = LinklessId THEN NULL ELSE "link",
                     unsubscribe_status |-> "pending"]]
    /\ job = NoJob
    /\ unsubscribe_job_results = EmptyBag
    /\ queue = [e \in EmailIds |-> NoTask]
    /\ handler = [e \in EmailIds |-> Idle]
    /\ faults = 0
    /\ dbUp = TRUE
    /\ response = NoResponse
    /\ sync = NoRequest
    /\ overlap = NoOverlap
    /\ pool = [t \in PoolTasks |-> "none"]
    /\ invocation = [c \in Calls |-> NotCalled]
    /\ this_stagehand = {}
    /\ sessions = [s \in Calls |-> NoSession]
    /\ executor = NotExecuting

(* ------------------ POST /unsubscribe/async/batch ---------------------- *)

\* Mutant of BadRequest: the validation rejects only what is no array.
BadRequestArrayOnly(body) == ~body.isArray

\* if (!Array.isArray(emailIds) || emailIds.length === 0)
BadRequest(body) == ~body.isArray \/ Len(body.emailIds) = 0

\* INSERT INTO unsubscribe_jobs (..., total_emails, ...) VALUES (..., rows.length, 0, 0, 0, 'pending', ...)
NewBatchJob(rows) ==
    [user_id |-> Caller,
     total_emails |-> Cardinality(rows),
     processed_count |-> 0,
     success_count |-> 0,
     failed_count |-> 0,
     status |-> "pending",
     completed_at |-> NullTime]

\* Mutant of NoneEligible: the route goes on with an empty result.
NoneEligibleIgnored(rows) == FALSE

\* if (result.rows.length === 0)
NoneEligible(rows) == rows = {}

\* The route: 400 for a body without a non-empty array, 500 when the SELECT
\* rejects, 404 and no change when no row is eligible, else the BatchJob row
\* and one task per eligible email.
SubmitAsyncBatch(body) ==
    /\ job = NoJob
    /\ IF BadRequest(body)
       THEN /\ response' = [status |-> 400]
            /\ UNCHANGED <<job, queue>>
       ELSE IF ~dbUp
       THEN /\ response' = [status |-> 500]
            /\ UNCHANGED <<job, queue>>
       ELSE LET rows == EligibleRows(Caller, Range(body.emailIds)) IN
            IF NoneEligible(rows)
            THEN /\ response' = [status |-> 404]
                 /\ UNCHANGED <<job, queue>>
            ELSE /\ job' = NewBatchJob(rows)
                 /\ queue' = [e \in EmailIds |->
                                IF e \in rows
                                THEN [state |-> "waiting", attemptsMade |-> 0]
                                ELSE queue[e]]
                 /\ response' = [status |-> 200,
                                 totalEmails |-> Cardinality(rows),
                                 jobStatus |-> "pending"]
    /\ UNCHANGED <<emails, unsubscribe_job_results, handler, faults, dbUp>>
    /\ UNCHANGED <<sync, overlap, pool, serviceVars>>

(* --------------- GET /unsubscribe/async/status/:jobId ------------------ *)

\* uuidRegex.test(jobId)
WellFormed(jobId) == jobId # MalformedJobId

\* Mutant of SelectJob: the SELECT without `AND user_id = $2`.
SelectJobOfAnyUser(jobId, userId) ==
    IF jobId = BatchJobId /\ job # NoJob THEN {job} ELSE {}

\* SELECT * FROM unsubscribe_jobs WHERE id = $1 AND user_id = $2
SelectJob(jobId, userId) ==
    IF jobId = BatchJobId /\ job # NoJob /\ job.user_id = userId THEN {job} ELSE {}

(* JavaScript numbers are IEEE 754 doubles.  A positive double is its      *)
(* significand, Precision bits with the first bit 1, and the number of     *)
(* those bits that stand left of the binary point (negative when the value *)
(* is below 1/2): value = SUM bits[i] * 2^(point - i).  Zero has no bits.  *)

\* The bits of the significand of a double.
Precision == 53

Zeros(n) == [i \in 1..n |-> 0]

\* The binary digits of a natural number, most significant first.
RECURSIVE IntBits(_)
IntBits(n) == IF n = 0 THEN << >> ELSE Append(IntBits(n \div 2), n % 2)

\* The natural number of a sequence of binary digits.
RECURSIVE BitsValue(_)
BitsValue(bits) ==
    IF bits = << >> THEN 0
    ELSE 2 * BitsValue(SubSeq(bits, 1, Len(bits) - 1)) + bits[Len(bits)]

\* What is left of r / t after its first n binary digits after the point,
\* for 0 <= r < t: (r * 2^n) % t, eight digits at a time while n allows.
RECURSIVE FracRemainder(_, _, _)
FracRemainder(r, t, n) ==
    IF n = 0 THEN r
    ELSE IF n >= 8 THEN FracRemainder((256 * r) % t, t, n - 8)
    ELSE FracRemainder((2 * r) % t, t, n - 1)

\* The first n binary digits of r / t after the point.
FracBits(r, t, n) ==
    [i \in 1..n |-> IF 2 * FracRemainder(r, t, i - 1) >= t THEN 1 ELSE 0]

\* bits + 1 on as many digits, for bits that are not all ones.
Increment(bits) ==
    [i \in 1..Len(bits) |->
        IF \A j \in (i + 1)..Len(bits) : bits[j] = 1 THEN 1 - bits[i] ELSE bits[i]]

\* The k binary digits of a natural number below 2^k.
ToBits(v, k) == [i \in 1..k |-> (v \div 2^(k - i)) % 2]

\* a + b + carry for two sequences of n digits whose sum has n digits, fifteen
\* digits at a time from the right.
RECURSIVE AddBits(_, _, _)
AddBits(a, b, carry) ==
    IF a = << >> THEN << >>
    ELSE LET n == Len(a)
             k == IF n < 15 THEN n ELSE 15
             sum == BitsValue(SubSeq(a, n - k + 1, n)) + BitsValue(SubSeq(b, n - k + 1, n)) + carry
         IN AddBits(SubSeq(a, 1, n - k), SubSeq(b, 1, n - k), sum \div 2^k) \o ToBits(sum % 2^k, k)

\* The leading zeros of a sequence of digits.
LeadingZeros(bits) ==
    IF \A i \in 1..Len(bits) : bits[i] = 0 THEN Len(bits)
    ELSE (CHOOSE i \in 1..Len(bits) : bits[i] = 1 /\ \A j \in 1..(i - 1) : bits[j] = 0) - 1

\* The double nearest to the exact value given by its digits, the place of
\* its point and whether nonzero digits follow (sticky): round to nearest,
\* ties to even.
RoundToDouble(digits, point, sticky) ==
    LET z == LeadingZeros(digits)
        bits == SubSeq(digits, z + 1, Len(digits)) \o Zeros(Precision + 1)
        kept == SubSeq(bits, 1, Precision)
        guard == bits[Precision + 1]
        rest == sticky \/ \E i \in (Precision + 2)..Len(bits) : bits[i] = 1
        up == guard = 1 /\ (rest \/ kept[Precision] = 1)
    IN IF z = Len(digits) THEN [bits |-> << >>, point |-> 0]
       ELSE IF ~up THEN [bits |-> kept, point |-> point - z]
       ELSE IF \A i \in 1..Precision : kept[i] = 1
       THEN [bits |-> <<1>> \o Zeros(Precision - 1), point |-> point - z + 1]
       ELSE [bits |-> Increment(kept), point |-> point - z]

\* p / t on doubles, for naturals p and t > 0
Divide(p, t) ==
    LET int == IntBits(p \div t)
        n == 2 * Precision
    IN RoundToDouble(int \o FracBits(p % t, t, n), Len(int), FracRemainder(p % t, t, n) # 0)

\* x * 100 on doubles: 100 = 64 + 32 + 4
Times100(x) ==
    IF x.bits = << >> THEN x
    ELSE LET wide(k) == Zeros(7 - k) \o x.bits \o Zeros(k)
             product == AddBits(AddBits(wide(6), wide(5), 0), wide(2), 0)
         IN RoundToDouble(product, x.point + 7, FALSE)

\* Math.round(x) for a double x >= 0: the integer nearest to x, halves up
MathRound(x) ==
    IF x.bits = << >> \/ x.point < 0 THEN 0
    ELSE BitsValue(SubSeq(x.bits, 1, x.point))
         + (IF x.point < Precision THEN x.bits[x.point + 1] ELSE 0)

\* Math.round((processed_count / total_emails) * 100), 0 for an empty batch
ProgressPercentage(row) ==
    IF row.total_emails > 0
    THEN MathRound(Times100(Divide(row.processed_count, row.total_emails)))
    ELSE 0

\* What the route answers to userId asking for jobId.
StatusResponse(jobId, userId) ==
    IF ~WellFormed(jobId) THEN [status |-> 400, error |-> "Invalid job ID format"]
    ELSE IF ~dbUp
    THEN [status |-> 500, error |-> "Internal server error checking job status"]
    ELSE IF SelectJob(jobId, userId) = {}
    THEN [status |-> 404, error |-> "Job not found"]
    ELSE LET row == CHOOSE r \in SelectJob(jobId, userId) : TRUE IN
         [status |-> 200,
          jobStatus |-> row.status,
          totalEmails |-> row.total_emails,
          processedCount |-> row.processed_count,
          successCount |-> row.success_count,
          failedCount |-> row.failed_count,
          progressPercentage |-> ProgressPercentage(row),
          completedAt |-> row.completed_at]

GetStatus(jobId, userId) ==
    /\ response' = StatusResponse(jobId, userId)
    /\ UNCHANGED <<emails, job, unsubscribe_job_results, queue, handler, faults, dbUp>>
    /\ UNCHANGED <<sync, overlap, pool, serviceVars>>

(* ---------------- UnsubscribeService.unsubscribeFromEmail ---------------- *)
(* The service is one object per process (module.exports = new            *)
(* UnsubscribeService()), so concurrent calls share this.stagehand.  Every *)
(* await of a call is one step.  Call c constructs the Stagehand object c. *)

PageTypes == {"form", "button", "confirmation", "already_unsubscribed", "error", "other"}

\* An optional string of a zod schema is the set of its value: empty when absent.
ErrorMessages == {{}, {""}, {"page-reported error text"}}

\* What the classifier (the first page.extract) can answer; an error page may
\* report its error text.
PageAnalyses ==
    {a \in [pageType : PageTypes, description : {"description"},
            errorMessage : ErrorMessages] :
        a.pageType # "error" => a.errorMessage = {}}

\* What the page.extract after the action can answer.
ExtractResults ==
    [success : BOOLEAN, message : {"page message"},
     confirmationText : {{}, {"confirmation text"}}, hasResubscribeButton : BOOLEAN]

\* a || b on optional strings: undefined and '' are falsy
Or(optional, other) ==
    IF optional # {} /\ optional # {""} THEN CHOOSE x \in optional : TRUE ELSE other

AlreadyUnsubscribedResult(pageAnalysis, sessionId) ==
    [success |-> TRUE, message |-> "Already unsubscribed",
     details |-> pageAnalysis.description, sessionId |-> sessionId]

ConfirmationResult(pageAnalysis, sessionId) ==
    [success |-> TRUE, message |-> "Unsubscribed successfully",
     details |-> pageAnalysis.description, sessionId |-> sessionId]

\* Mutant of ErrorPageResult: details is the classifier's description always.
ErrorPageResultOfDescription(pageAnalysis, sessionId) ==
    [success |-> FALSE, message |-> "Error on unsubscribe page",
     details |-> pageAnalysis.description, sessionId |-> sessionId]

ErrorPageResult(pageAnalysis, sessionId) ==
    [success |-> FALSE, message |-> "Error on unsubscribe page",
     details |-> Or(pageAnalysis.errorMessage, pageAnalysis.description),
     sessionId |-> sessionId]

ActionResult(result, sessionId) ==
    [success |-> result.success \/ result.hasResubscribeButton,
     message |-> IF result.hasResubscribeButton
                 THEN "Successfully unsubscribed (Resubscribe button found)"
                 ELSE result.message,
     details |-> Or(result.confirmationText,
                    IF result.hasResubscribeButton
                    THEN "Unsubscribe button changed to Resubscribe" ELSE ""),
     sessionId |-> sessionId]

GenericFinalResult(genericResult, sessionId) ==
    [success |-> genericResult.success, message |-> genericResult.message,
     details |-> "Generic unsubscribe attempt", sessionId |-> sessionId]

ErrorResult(error, sessionId) ==
    [success |-> FALSE, message |-> "Failed to process unsubscribe",
     details |-> error, sessionId |-> sessionId]

\* Mutant of Catch: the catch block rethrows instead of returning errorResult.
CatchRethrows(inv, error) ==
    [inv EXCEPT !.pc = "finally", !.caught = {error}, !.threw = TRUE]

\* catch (error) { ...; return errorResult; }: the call goes on to finally.
Catch(inv, error) ==
    [inv EXCEPT !.pc = "finally", !.caught = {error},
                !.result = {ErrorResult(error, inv.stagehand)}]

\* return <result> inside try: the call goes on to finally.
ReturnResult(inv, result) == [inv EXCEPT !.pc = "finally", !.result = {result}]

InCall(c, pc) == invocation[c].pc = pc

\* The page of the Stagehand object the call holds answers only while that
\* object is initialised and not closed; else every page operation throws.
Usable(c) == \A s \in invocation[c].stagehand : sessions[s].state = "ready"

ServiceUnchanged ==
    UNCHANGED <<emails, job, unsubscribe_job_results, queue, handler, faults, dbUp,
                response, sync, overlap, pool, executor>>

\* unsubscribeFromEmail(link) up to the first await: initializeStagehand
\* assigns this.stagehand = new Stagehand(...) and awaits its init().
NewStagehand(c) ==
    /\ InCall(c, "notCalled")
    /\ this_stagehand' = {c}
    /\ sessions' = [sessions EXCEPT ![c].state = "created"]
    /\ invocation' = [invocation EXCEPT ![c].pc = "init"]
    /\ ServiceUnchanged

\* return this.stagehand, read when init() has resolved
ReturnStagehand(c) == this_stagehand

\* await this.stagehand.init() settles.  Resolved: initializeStagehand returns
\* this.stagehand and the call reads its page and sessionId.  Rejected:
\* initializeStagehand rethrows, into the catch of unsubscribeFromEmail.
StagehandInit(c, resolved) ==
    /\ InCall(c, "init")
    /\ IF resolved
       THEN /\ sessions' = [sessions EXCEPT ![c].state =
                               IF @ = "created" THEN "ready" ELSE @]
            /\ invocation' = [invocation EXCEPT ![c].stagehand = ReturnStagehand(c),
                                                ![c].pc = "goto"]
       ELSE /\ sessions' = [sessions EXCEPT ![c].state =
                               IF @ = "created" THEN "failed" ELSE @]
            /\ invocation' = [invocation EXCEPT ![c] = Catch(@, "init failed")]
    /\ UNCHANGED this_stagehand
    /\ ServiceUnchanged

\* Mutant of LoopGoesOn: the loop runs while i <= maxRetries.
LoopGoesOnOnceMore(i) == i + 1 <= maxRetries

\* for (let i = 0; i < maxRetries; i++): the test after i++ of turn i
LoopGoesOn(i) == i + 1 < maxRetries

\* One turn of the navigation loop: page.goto resolves and the loop breaks, or
\* it rejects and the loop goes on; after maxRetries turns lastError is thrown.
\* On a page that no longer answers the waits of the loop throw as well: the
\* first turn has no wait before its page.goto, the later turns have one.
PageGoto(c, resolved) ==
    /\ InCall(c, "goto")
    /\ invocation' = [invocation EXCEPT ![c] =
          IF ~Usable(c)
          THEN Catch([@ EXCEPT !.loads = IF invocation[c].i = 0 THEN @ + 1 ELSE @],
                     "page closed")
          ELSE IF resolved THEN [@ EXCEPT !.pc = "classify", !.loads = @ + 1]
          ELSE IF LoopGoesOn(@.i) THEN [@ EXCEPT !.i = @ + 1, !.loads = @ + 1]
          ELSE Catch([@ EXCEPT !.i = @ + 1, !.loads = @ + 1], "navigation failed")]
    /\ UNCHANGED <<this_stagehand, sessions>>
    /\ ServiceUnchanged

\* const pageAnalysis = await page.extract(...)
Classify(c, pageAnalysis) ==
    /\ InCall(c, "classify")
    /\ invocation' = [invocation EXCEPT ![c] =
          IF ~Usable(c) THEN Catch(@, "page closed")
          ELSE [@ EXCEPT !.pc = "switch", !.pageAnalysis = pageAnalysis]]
    /\ UNCHANGED <<this_stagehand, sessions>>
    /\ ServiceUnchanged

\* page.extract rejects
ClassifyThrows(c) ==
    /\ InCall(c, "classify")
    /\ invocation' = [invocation EXCEPT ![c] = Catch(@, "classification failed")]
    /\ UNCHANGED <<this_stagehand, sessions>>
    /\ ServiceUnchanged

\* Mutant of Immediate: a confirmation page is handled like a button page.
ImmediateButConfirmation(pageType) == pageType \in {"already_unsubscribed", "error"}

\* The cases of the switch that return without an action.
Immediate(pageType) == pageType \in {"already_unsubscribed", "confirmation", "error"}

\* switch (pageAnalysis.pageType)
SwitchPageType(c) ==
    /\ InCall(c, "switch")
    /\ LET inv == invocation[c]
           pageType == inv.pageAnalysis.pageType
       IN invocation' = [invocation EXCEPT ![c] =
            IF ~Immediate(pageType) THEN [@ EXCEPT !.pc = "performUnsubscribeAction"]
            ELSE IF pageType = "already_unsubscribed"
            THEN ReturnResult(@, AlreadyUnsubscribedResult(inv.pageAnalysis, inv.stagehand))
            ELSE IF pageType = "error"
            THEN ReturnResult(@, ErrorPageResult(inv.pageAnalysis, inv.stagehand))
            ELSE ReturnResult(@, ConfirmationResult(inv.pageAnalysis, inv.stagehand))]
    /\ UNCHANGED <<this_stagehand, sessions>>
    /\ ServiceUnchanged

\* await this.performUnsubscribeAction(page): it swallows the error of each
\* strategy and rethrows any other.
PerformUnsubscribeAction(c, resolved) ==
    /\ InCall(c, "performUnsubscribeAction")
    /\ invocation' = [invocation EXCEPT ![c] =
          IF resolved
          THEN [@ EXCEPT !.pc = "extract", !.actions = @ + 1]
          ELSE Catch([@ EXCEPT !.actions = @ + 1], "action failed")]
    /\ UNCHANGED <<this_stagehand, sessions>>
    /\ ServiceUnchanged

\* The page.extract after the action and the result built from it.
ExtractResult(c, result) ==
    /\ InCall(c, "extract")
    /\ LET inv == invocation[c] IN
       invocation' = [invocation EXCEPT ![c] =
          IF ~Usable(c) THEN Catch(@, "page closed")
          ELSE IF inv.pageAnalysis.pageType \in {"form", "button"}
          THEN ReturnResult([@ EXCEPT !.extracted = {result}],
                            ActionResult(result, inv.stagehand))
          ELSE ReturnResult([@ EXCEPT !.extracted = {result}],
                            GenericFinalResult(result, inv.stagehand))]
    /\ UNCHANGED <<this_stagehand, sessions>>
    /\ ServiceUnchanged

\* page.extract rejects
ExtractThrows(c) ==
    /\ InCall(c, "extract")
    /\ invocation' = [invocation EXCEPT ![c] = Catch(@, "classification failed")]
    /\ UNCHANGED <<this_stagehand, sessions>>
    /\ ServiceUnchanged

\* finally { if (stagehand) { try { await stagehand.close() } catch {} } }:
\* close() is called on the object the call holds, and its error is logged.
Finally(c, closed) ==
    /\ InCall(c, "finally")
    /\ sessions' = [s \in Calls |->
          IF s \in invocation[c].stagehand
          THEN [state |-> IF closed THEN "closed" ELSE sessions[s].state,
                closeCalls |-> sessions[s].closeCalls + 1]
          ELSE sessions[s]]
    /\ invocation' = [invocation EXCEPT ![c].pc = "returned"]
    /\ UNCHANGED this_stagehand
    /\ ServiceUnchanged

NextService ==
    \/ \E c \in Calls : NewStagehand(c)
    \/ \E c \in Calls, resolved \in BOOLEAN : StagehandInit(c, resolved)
    \/ \E c \in Calls, resolved \in BOOLEAN : PageGoto(c, resolved)
    \/ \E c \in Calls, pageAnalysis \in PageAnalyses : Classify(c, pageAnalysis)
    \/ \E c \in Calls : ClassifyThrows(c)
    \/ \E c \in Calls : SwitchPageType(c)
    \/ \E c \in Calls, resolved \in BOOLEAN : PerformUnsubscribeAction(c, resolved)
    \/ \E c \in Calls, result \in ExtractResults : ExtractResult(c, result)
    \/ \E c \in Calls : ExtractThrows(c)
    \/ \E c \in Calls, closed \in BOOLEAN : Finally(c, closed)

(* ------------- unsubscribeQueue.process('unsubscribe-email') ----------- *)

At(e, pc) == queue[e].state = "active" /\ handler[e].pc = pc

Goto(e, pc) == handler' = [handler EXCEPT ![e].pc = pc]

\* Goto after an INSERT INTO unsubscribe_job_results of this execution.
GotoInserted(e, pc) == handler' = [handler EXCEPT ![e].pc = pc, ![e].inserts = @ + 1]

\* Goto after a processed_count = processed_count + 1 of this execution.
GotoIncremented(e, pc) ==
    handler' = [handler EXCEPT ![e].pc = pc, ![e].increments = @ + 1]

\* What unsubscribeFromEmail can return to the worker: it catches every
\* error of its own and returns a result, whose success flag the worker reads.
UnsubscribeResults ==
    {[success |-> TRUE, message |-> "Already unsubscribed"],
     [success |-> TRUE, message |-> "Unsubscribed successfully"],
     [success |-> FALSE, message |-> "Error on unsubscribe page"],
     [success |-> TRUE, message |-> "Successfully unsubscribed (Resubscribe button found)"],
     [success |-> TRUE, message |-> "page message"],
     [success |-> FALSE, message |-> "page message"],
     [success |-> FALSE, message |-> "Failed to process unsubscribe"]}

\* Mutant of SlotFree: the pool takes every waiting task at once.
SlotAlwaysFree(active) == TRUE

\* The pool runs at most `concurrency` handlers at a time.
SlotFree(active) == Cardinality(active) < concurrency

\* Bull hands a waiting task to a free slot of the worker pool.
StartTask(e) ==
    /\ queue[e].state = "waiting"
    /\ SlotFree(Active)
    /\ queue' = [queue EXCEPT ![e].state = "active"]
    /\ handler' = [handler EXCEPT ![e] = [Idle EXCEPT !.pc = "setProcessing"]]
    /\ UNCHANGED <<emails, job, unsubscribe_job_results, faults, dbUp>>
    /\ UNCHANGED <<response, sync, overlap, pool, serviceVars>>

\* Mutant of MarkProcessing: the UPDATE without `AND status = 'pending'`.
MarkProcessingUnguarded(row) == [row EXCEPT !.status = "processing"]

\* UPDATE unsubscribe_jobs SET status = 'processing' WHERE id = $1 AND status = 'pending'
MarkProcessing(row) ==
    IF row.status = "pending" THEN [row EXCEPT !.status = "processing"] ELSE row

SetProcessing(e) ==
    /\ At(e, "setProcessing")
    /\ IF dbUp
       THEN job' = MarkProcessing(job) /\ Goto(e, "setInProgress")
       ELSE job' = job /\ Goto(e, "catchEmail")
    /\ UNCHANGED <<emails, unsubscribe_job_results, queue, faults, dbUp>>
    /\ UNCHANGED <<response, sync, overlap, pool, serviceVars>>

\* UPDATE emails SET unsubscribe_status = 'in_progress' WHERE id = $2
SetInProgress(e) ==
    /\ At(e, "setInProgress")
    /\ IF dbUp
       THEN /\ emails' = [emails EXCEPT ![e].unsubscribe_status = "in_progress"]
            /\ Goto(e, "attempt")
       ELSE emails' = emails /\ Goto(e, "catchEmail")
    /\ UNCHANGED <<job, unsubscribe_job_results, queue, faults, dbUp>>
    /\ UNCHANGED <<response, sync, overlap, pool, serviceVars>>

\* const unsubscribeResult = await unsubscribeService.unsubscribeFromEmail(link)
Attempt(e, unsubscribeResult) ==
    /\ At(e, "attempt")
    /\ handler' = [handler EXCEPT ![e].pc = "setEmailResult",
                                  ![e].success = unsubscribeResult.success]
    /\ UNCHANGED <<emails, job, unsubscribe_job_results, queue, faults, dbUp>>
    /\ UNCHANGED <<response, sync, overlap, pool, serviceVars>>

\* UPDATE emails SET unsubscribe_status = finalStatus, ... WHERE id = $4
SetEmailResult(e) ==
    /\ At(e, "setEmailResult")
    /\ IF dbUp
       THEN /\ emails' = [emails EXCEPT ![e].unsubscribe_status =
                             IF handler[e].success THEN "completed" ELSE "failed"]
            /\ Goto(e, "insertResult")
       ELSE emails' = emails /\ Goto(e, "catchEmail")
    /\ UNCHANGED <<job, unsubscribe_job_results, queue, faults, dbUp>>
    /\ UNCHANGED <<response, sync, overlap, pool, serviceVars>>

\* INSERT INTO unsubscribe_job_results (job_id, email_id, success, message)
InsertResult(e) ==
    /\ At(e, "insertResult")
    /\ IF dbUp
       THEN /\ unsubscribe_job_results' = Insert(ResultRow(e, handler[e].success))
            /\ GotoInserted(e, "updateCounters")
       ELSE unsubscribe_job_results' = unsubscribe_job_results /\ Goto(e, "catchEmail")
    /\ UNCHANGED <<emails, job, queue, faults, dbUp>>
    /\ UNCHANGED <<response, sync, overlap, pool, serviceVars>>

\* Mutant of IncrementCounters: the failure outcome bumps processed_count alone.
IncrementCountersForgetFailed(row, counterField) ==
    IF counterField = "failed_count"
    THEN [row EXCEPT !.processed_count = @ + 1]
    ELSE [row EXCEPT !.processed_count = @ + 1, ![counterField] = @ + 1]

\* UPDATE unsubscribe_jobs SET processed_count = processed_count + 1,
\*   ${counterField} = ${counterField} + 1 WHERE id = $1 RETURNING ...
IncrementCounters(row, counterField) ==
    [row EXCEPT !.processed_count = @ + 1, ![counterField] = @ + 1]

\* if (processed_count >= total_emails) on the returned row
BatchIsComplete(row) == row.processed_count >= row.total_emails

\* Mutant of UpdateCounters: a read-then-write in the application, which
\* counts the rows of unsubscribe_job_results and writes the totals back.
UpdateCountersReadThenWrite(e) ==
    /\ At(e, "updateCounters")
    /\ IF dbUp
       THEN /\ job' = [job EXCEPT
                          !.processed_count = BagCardinality(unsubscribe_job_results),
                          !.success_count = BagCardinality(
                              [r \in {x \in BagToSet(unsubscribe_job_results) : x.success}
                                  |-> unsubscribe_job_results[r]]),
                          !.failed_count = BagCardinality(
                              [r \in {x \in BagToSet(unsubscribe_job_results) : ~x.success}
                                  |-> unsubscribe_job_results[r]])]
            /\ GotoIncremented(e, IF job'.processed_count >= job'.total_emails
                                  THEN "markCompleted" ELSE "return")
       ELSE job' = job /\ Goto(e, "catchEmail")
    /\ UNCHANGED <<emails, unsubscribe_job_results, queue, faults, dbUp>>
    /\ UNCHANGED <<response, sync, overlap, pool, serviceVars>>

\* The counter update of the success path and the completion check on the
\* row it returns.
UpdateCounters(e) ==
    /\ At(e, "updateCounters")
    /\ IF dbUp
       THEN /\ job' = IncrementCounters(job,
                          IF handler[e].success THEN "success_count" ELSE "failed_count")
            /\ GotoIncremented(e, IF BatchIsComplete(job') THEN "markCompleted" ELSE "return")
       ELSE job' = job /\ Goto(e, "catchEmail")
    /\ UNCHANGED <<emails, unsubscribe_job_results, queue, faults, dbUp>>
    /\ UNCHANGED <<response, sync, overlap, pool, serviceVars>>

\* The instants NOW() can return to a statement on this row: the clock never
\* runs backwards, so none earlier than a timestamp the row already holds.
Now(row) == {t \in 0..MaxClock : \A u \in row.completed_at : t >= u}

\* UPDATE unsubscribe_jobs SET status = 'completed', completed_at = NOW() WHERE id = $1
SetCompleted(row, t) == [row EXCEPT !.status = "completed", !.completed_at = {t}]

MarkCompleted(e) ==
    /\ At(e, "markCompleted")
    /\ IF dbUp
       THEN (\E t \in Now(job) : job' = SetCompleted(job, t)) /\ Goto(e, "return")
       ELSE job' = job /\ Goto(e, "catchEmail")
    /\ UNCHANGED <<emails, unsubscribe_job_results, queue, faults, dbUp>>
    /\ UNCHANGED <<response, sync, overlap, pool, serviceVars>>

\* Mutant of Return: a result of success = false is thrown to the queue.
ReturnThrowsFailure(e) ==
    /\ At(e, "return")
    /\ IF handler[e].success
       THEN /\ queue' = [queue EXCEPT ![e].state = "completed"]
            /\ handler' = [handler EXCEPT ![e] = Idle]
       ELSE /\ queue' = queue
            /\ Goto(e, "catchEmail")
    /\ UNCHANGED <<emails, job, unsubscribe_job_results, faults, dbUp>>
    /\ UNCHANGED <<response, sync, overlap, pool, serviceVars>>

\* return {success, emailId, message}: Bull marks the task completed.
Return(e) ==
    /\ At(e, "return")
    /\ queue' = [queue EXCEPT ![e].state = "completed"]
    /\ handler' = [handler EXCEPT ![e] = Idle]
    /\ UNCHANGED <<emails, job, unsubscribe_job_results, faults, dbUp>>
    /\ UNCHANGED <<response, sync, overlap, pool, serviceVars>>

(* The catch path.  An error of one of its own statements is caught by the *)
(* inner try/catch (updateError), logged, and the outer error is rethrown. *)

\* UPDATE emails SET unsubscribe_status = 'failed' WHERE id = $2
CatchEmail(e) ==
    /\ At(e, "catchEmail")
    /\ IF dbUp
       THEN /\ emails' = [emails EXCEPT ![e].unsubscribe_status = "failed"]
            /\ Goto(e, "catchInsert")
       ELSE emails' = emails /\ Goto(e, "rethrow")
    /\ UNCHANGED <<job, unsubscribe_job_results, queue, faults, dbUp>>
    /\ UNCHANGED <<response, sync, overlap, pool, serviceVars>>

\* INSERT INTO unsubscribe_job_results ... VALUES ($1, $2, FALSE, $3)
CatchInsert(e) ==
    /\ At(e, "catchInsert")
    /\ IF dbUp
       THEN /\ unsubscribe_job_results' = Insert(ResultRow(e, FALSE))
            /\ GotoInserted(e, "catchCounters")
       ELSE unsubscribe_job_results' = unsubscribe_job_results /\ Goto(e, "rethrow")
    /\ UNCHANGED <<emails, job, queue, faults, dbUp>>
    /\ UNCHANGED <<response, sync, overlap, pool, serviceVars>>

\* The counter update of the catch path (failed_count) and its completion check.
CatchCounters(e) ==
    /\ At(e, "catchCounters")
    /\ IF dbUp
       THEN /\ job' = IncrementCounters(job, "failed_count")
            /\ GotoIncremented(e, IF BatchIsComplete(job') THEN "catchCompleted" ELSE "rethrow")
       ELSE job' = job /\ Goto(e, "rethrow")
    /\ UNCHANGED <<emails, unsubscribe_job_results, queue, faults, dbUp>>
    /\ UNCHANGED <<response, sync, overlap, pool, serviceVars>>

CatchCompleted(e) ==
    /\ At(e, "catchCompleted")
    /\ IF dbUp
       THEN \E t \in Now(job) : job' = SetCompleted(job, t)
       ELSE job' = job
    /\ Goto(e, "rethrow")
    /\ UNCHANGED <<emails, unsubscribe_job_results, queue, faults, dbUp>>
    /\ UNCHANGED <<response, sync, overlap, pool, serviceVars>>

\* throw error: Bull counts the attempt and, with attempts left, delays the
\* task for its backoff, else fails it for good (removeOnFail: false).
Rethrow(e) ==
    /\ At(e, "rethrow")
    /\ queue' = [queue EXCEPT ![e] =
                    [state |-> IF queue[e].attemptsMade + 1 < attempts
                               THEN "delayed" ELSE "failed",
                     attemptsMade |-> queue[e].attemptsMade + 1]]
    /\ handler' = [handler EXCEPT ![e] = Idle]
    /\ UNCHANGED <<emails, job, unsubscribe_job_results, faults, dbUp>>
    /\ UNCHANGED <<response, sync, overlap, pool, serviceVars>>

\* The exponential backoff of a delayed task elapses.
BackoffElapsed(e) ==
    /\ queue[e].state = "delayed"
    /\ queue' = [queue EXCEPT ![e].state = "waiting"]
    /\ UNCHANGED <<emails, job, unsubscribe_job_results, handler, faults, dbUp>>
    /\ UNCHANGED <<response, sync, overlap, pool, serviceVars>>

\* The worker running the task dies mid-handler; Bull detects the task as
\* stalled and puts it back to wait.
Stalled(e) ==
    /\ queue[e].state = "active"
    /\ faults < MaxFaults
    /\ faults' = faults + 1
    /\ queue' = [queue EXCEPT ![e].state = "waiting"]
    /\ handler' = [handler EXCEPT ![e] = Idle]
    /\ UNCHANGED <<emails, job, unsubscribe_job_results, dbUp>>
    /\ UNCHANGED <<response, sync, overlap, pool, serviceVars>>

\* One step of the handler of task e, after the attempt or before it.
HandlerStep(e) ==
    \/ SetProcessing(e)
    \/ SetInProgress(e)
    \/ SetEmailResult(e)
    \/ InsertResult(e)
    \/ UpdateCounters(e)
    \/ MarkCompleted(e)
    \/ Return(e)
    \/ CatchEmail(e)
    \/ CatchInsert(e)
    \/ CatchCounters(e)
    \/ CatchCompleted(e)
    \/ Rethrow(e)

QueueStep(e) ==
    \/ StartTask(e)
    \/ BackoffElapsed(e)
    \/ Stalled(e)

(* ------------- two batches that hold the same email -------------------- *)
(* The handler of unsubscribeQueue.process once more, for the task of      *)
(* batch A and the task of batch B on one Email row, every database write  *)
(* succeeding: each task addresses its own unsubscribe_jobs row by         *)
(* batchJobId and the shared emails row by emailId.                        *)

OverlapUnchanged ==
    UNCHANGED <<emails, job, unsubscribe_job_results, queue, handler, faults, dbUp,
                response, sync, pool, serviceVars>>

OverlapAt(b, pc) == overlap.tasks[b].pc = pc

\* The async submit of batch b with the shared email, and Bull starting its task.
OverlapSubmit(b) ==
    /\ OverlapAt(b, "none")
    /\ overlap' = [overlap EXCEPT !.jobs[b] = NewBatchJob({SharedEmail}),
                                  !.tasks[b].pc = "setProcessing"]
    /\ OverlapUnchanged

OverlapSetProcessing(b) ==
    /\ OverlapAt(b, "setProcessing")
    /\ overlap' = [overlap EXCEPT !.jobs[b] = MarkProcessing(@),
                                  !.tasks[b].pc = "setInProgress"]
    /\ OverlapUnchanged

\* UPDATE emails SET unsubscribe_status = 'in_progress' WHERE id = $2
OverlapSetInProgress(b) ==
    /\ OverlapAt(b, "setInProgress")
    /\ overlap' = [overlap EXCEPT !.email.unsubscribe_status = "in_progress",
                                  !.tasks[b].pc = "attempt"]
    /\ OverlapUnchanged

OverlapAttempt(b, unsubscribeResult) ==
    /\ OverlapAt(b, "attempt")
    /\ overlap' = [overlap EXCEPT !.tasks[b] = [pc |-> "setEmailResult",
                                                success |-> unsubscribeResult.success,
                                                message |-> unsubscribeResult.message]]
    /\ OverlapUnchanged

\* Mutant of WriteEmailResult: the UPDATE guarded by
\* `AND unsubscribe_status = 'in_progress'`.
WriteEmailResultIfInProgress(row, success, message) ==
    IF row.unsubscribe_status = "in_progress"
    THEN [unsubscribe_status |-> IF success THEN "completed" ELSE "failed",
          unsubscribe_result |-> message]
    ELSE row

\* UPDATE emails SET unsubscribe_status = finalStatus, unsubscribe_result =
\* {message, ...} WHERE id = $4
WriteEmailResult(row, success, message) ==
    [unsubscribe_status |-> IF success THEN "completed" ELSE "failed",
     unsubscribe_result |-> message]

OverlapSetEmailResult(b) ==
    /\ OverlapAt(b, "setEmailResult")
    /\ overlap' = [overlap EXCEPT
                      !.email = WriteEmailResult(@, overlap.tasks[b].success,
                                                 overlap.tasks[b].message),
                      !.lastWrite = {b},
                      !.tasks[b].pc = "insertResult"]
    /\ OverlapUnchanged

\* INSERT INTO unsubscribe_job_results (job_id, email_id, success, message)
OverlapInsertResult(b) ==
    /\ OverlapAt(b, "insertResult")
    /\ overlap' = [overlap EXCEPT
                      !.results = @ \cup {[job_id |-> b, email_id |-> SharedEmail,
                                           success |-> overlap.tasks[b].success]},
                      !.tasks[b].pc = "updateCounters"]
    /\ OverlapUnchanged

OverlapUpdateCounters(b) ==
    /\ OverlapAt(b, "updateCounters")
    /\ LET row == IncrementCounters(overlap.jobs[b],
                      IF overlap.tasks[b].success THEN "success_count" ELSE "failed_count")
       IN overlap' = [overlap EXCEPT
                         !.jobs[b] = row,
                         !.tasks[b].pc = IF BatchIsComplete(row)
                                         THEN "markCompleted" ELSE "return"]
    /\ OverlapUnchanged

OverlapMarkCompleted(b) ==
    /\ OverlapAt(b, "markCompleted")
    /\ \E t \in Now(overlap.jobs[b]) :
          overlap' = [overlap EXCEPT !.jobs[b] = SetCompleted(@, t),
                                     !.tasks[b].pc = "return"]
    /\ OverlapUnchanged

OverlapReturn(b) ==
    /\ OverlapAt(b, "return")
    /\ overlap' = [overlap EXCEPT !.tasks[b].pc = "completed"]
    /\ OverlapUnchanged

NextOverlap ==
    \/ \E b \in Batches : OverlapSubmit(b)
    \/ \E b \in Batches : OverlapSetProcessing(b)
    \/ \E b \in Batches : OverlapSetInProgress(b)
    \/ \E b \in Batches, r \in UnsubscribeResults : OverlapAttempt(b, r)
    \/ \E b \in Batches : OverlapSetEmailResult(b)
    \/ \E b \in Batches : OverlapInsertResult(b)
    \/ \E b \in Batches : OverlapUpdateCounters(b)
    \/ \E b \in Batches : OverlapMarkCompleted(b)
    \/ \E b \in Batches : OverlapReturn(b)

SpecOverlap == Init /\ [][NextOverlap]_vars

(* ------------- a batch larger than the worker pool --------------------- *)
(* The tasks of one batch of concurrency + 1 emails, each reduced to the   *)
(* phases of its handler: before the attempt, inside unsubscribeFromEmail, *)
(* after it.                                                               *)

PoolUnchanged ==
    UNCHANGED <<emails, job, unsubscribe_job_results, queue, handler, faults, dbUp,
                response, sync, overlap, serviceVars>>

PoolMove(t, from, to) ==
    /\ pool[t] = from
    /\ pool' = [pool EXCEPT ![t] = to]
    /\ PoolUnchanged

\* The tasks a handler is running for.
PoolActive == {t \in PoolTasks : pool[t] \in {"started", "attempt", "finishing"}}

\* unsubscribeQueue.add for the task
PoolEnqueue(t) == PoolMove(t, "none", "waiting")

\* The pool takes the task when it has a free slot.
PoolStart(t) == SlotFree(PoolActive) /\ PoolMove(t, "waiting", "started")

\* The handler calls unsubscribeFromEmail.
PoolAttempt(t) == PoolMove(t, "started", "attempt")

\* unsubscribeFromEmail returns.
PoolAttemptReturns(t) == PoolMove(t, "attempt", "finishing")

\* The handler returns or throws; the slot is free again.
PoolReturn(t) == PoolMove(t, "finishing", "completed")

NextPool ==
    \/ \E t \in PoolTasks : PoolEnqueue(t)
    \/ \E t \in PoolTasks : PoolStart(t)
    \/ \E t \in PoolTasks : PoolAttempt(t)
    \/ \E t \in PoolTasks : PoolAttemptReturns(t)
    \/ \E t \in PoolTasks : PoolReturn(t)

SpecPool == Init /\ [][NextPool]_vars

(* --------------------- POST /unsubscribe/batch -------------------------- *)
(* The synchronous variant: the route awaits every statement of its loop,  *)
(* one step each.                                                          *)

\* req.db: the handles the request object carries.  No middleware of the
\* application assigns req.db, so it is undefined.
ReqDb == {}

SyncUnchanged ==
    UNCHANGED <<job, unsubscribe_job_results, queue, handler, faults, dbUp,
                overlap, pool, serviceVars>>

\* Mutant of TooMany: the cap on the batch size is not checked.
TooManyUnchecked(body) == FALSE

\* if (emailIds.length > 10)
TooMany(body) == Len(body.emailIds) > SyncBatchLimit

\* The route up to its loop: 400 for a body without a non-empty array or
\* with more than 10 ids, 500 when the SELECT rejects, 404 when no row is
\* eligible, else the loop starts over result.rows.
PostBatch(body) ==
    /\ sync.pc \in {"idle", "answered"}
    /\ IF BadRequest(body)
       THEN /\ response' = [status |-> 400,
                            error |-> "emailIds array is required and cannot be empty"]
            /\ sync' = [NoRequest EXCEPT !.pc = "answered"]
       ELSE IF TooMany(body)
       THEN /\ response' = [status |-> 400,
                            error |-> "Maximum 10 emails can be processed at once"]
            /\ sync' = [NoRequest EXCEPT !.pc = "answered"]
       ELSE IF ~dbUp
       THEN /\ response' = [status |-> 500]
            /\ sync' = [NoRequest EXCEPT !.pc = "answered"]
       ELSE LET rows == EligibleRows(Caller, Range(body.emailIds)) IN
            IF NoneEligible(rows)
            THEN /\ response' = [status |-> 404]
                 /\ sync' = [NoRequest EXCEPT !.pc = "answered"]
            ELSE /\ response' = NoResponse
                 /\ sync' = [NoRequest EXCEPT !.pc = "loop", !.rows = rows, !.todo = rows]
    /\ UNCHANGED emails
    /\ SyncUnchanged

\* results.push({emailId, success, message})
Push(results, emailId, success, message) ==
    Append(results, [emailId |-> emailId, success |-> success, message |-> message])

\* The try block of the loop for the next row of result.rows.  Its first
\* statement is `await req.db.query(...)`: with req.db undefined it throws a
\* TypeError before any statement of the block has run.  With a handle in
\* req.db the block marks the email in_progress, runs the attempt, writes the
\* final status and pushes the result, or throws the database error.
SyncTry(e, unsubscribeResult) ==
    /\ sync.pc = "loop"
    /\ e \in sync.todo
    /\ IF ReqDb = {}
       THEN /\ sync' = [sync EXCEPT !.pc = "catch", !.email = {e}, !.todo = @ \ {e},
                                    !.emailError = "Cannot read properties of undefined"]
            /\ UNCHANGED emails
       ELSE IF ~dbUp
       THEN /\ sync' = [sync EXCEPT !.pc = "catch", !.email = {e}, !.todo = @ \ {e},
                                    !.emailError = "database error"]
            /\ UNCHANGED emails
       ELSE /\ emails' = [emails EXCEPT ![e].unsubscribe_status =
                             IF unsubscribeResult.success THEN "completed" ELSE "failed"]
            /\ sync' = [sync EXCEPT !.todo = @ \ {e},
                                    !.attempted = @ \cup {e},
                                    !.results = Push(@, e, unsubscribeResult.success,
                                                     unsubscribeResult.message)]
    /\ UNCHANGED response
    /\ SyncUnchanged

\* catch (emailError): UPDATE emails SET unsubscribe_status = 'failed' and a
\* result of success: false; an error of this UPDATE leaves the loop for the
\* catch of the route, which answers 500.
SyncCatch ==
    /\ sync.pc = "catch"
    /\ IF dbUp
       THEN /\ emails' = [e \in EmailIds |->
                            IF e \in sync.email
                            THEN [emails[e] EXCEPT !.unsubscribe_status = "failed"]
                            ELSE emails[e]]
            /\ sync' = [sync EXCEPT
                           !.pc = "loop", !.email = {},
                           !.results = Push(@, CHOOSE e \in sync.email : TRUE,
                                            FALSE, sync.emailError)]
            /\ UNCHANGED response
       ELSE /\ UNCHANGED emails
            /\ sync' = [sync EXCEPT !.pc = "answered"]
            /\ response' = [status |-> 500]
    /\ SyncUnchanged

\* The number of results with the given success flag.
CountResults(results, success) ==
    Cardinality({i \in DOMAIN results : results[i].success = success})

\* res.json({message, results, summary}) after the loop
SyncRespond ==
    /\ sync.pc = "loop"
    /\ sync.todo = {}
    /\ response' = [status |-> 200,
                    results |-> sync.results,
                    summary |-> [total |-> Len(sync.results),
                                 successful |-> CountResults(sync.results, TRUE),
                                 failed |-> CountResults(sync.results, FALSE)]]
    /\ sync' = [sync EXCEPT !.pc = "answered"]
    /\ UNCHANGED emails
    /\ SyncUnchanged

(* ---------------------------- environment ------------------------------ *)

\* The database becomes unreachable: every db.query rejects until it recovers.
DbFail ==
    /\ dbUp
    /\ faults < MaxFaults
    /\ faults' = faults + 1
    /\ dbUp' = FALSE
    /\ UNCHANGED <<emails, job, unsubscribe_job_results, queue, handler>>
    /\ UNCHANGED <<response, sync, overlap, pool, serviceVars>>

DbRecover ==
    /\ ~dbUp
    /\ dbUp' = TRUE
    /\ UNCHANGED <<emails, job, unsubscribe_job_results, queue, handler, faults>>
    /\ UNCHANGED <<response, sync, overlap, pool, serviceVars>>

Environment ==
    \/ DbFail
    \/ DbRecover

\* Every step but the attempt itself.
Step ==
    \/ \E body \in AsyncBatchBodies : SubmitAsyncBatch(body)
    \/ \E e \in EmailIds : QueueStep(e)
    \/ \E e \in EmailIds : HandlerStep(e)
    \/ Environment

Next ==
    \/ Step
    \/ \E e \in EmailIds, r \in UnsubscribeResults : Attempt(e, r)

Spec == Init /\ [][Next]_vars

(* Scenario A: the classifier is mocked to answer confirmation (or          *)
(* already_unsubscribed) for every page.                                   *)

ClassifiedSuccessful ==
    {r \in UnsubscribeResults :
        r.message \in {"Already unsubscribed", "Unsubscribed successfully"}}

NextScenarioA ==
    \/ Step
    \/ \E e \in EmailIds, r \in ClassifiedSuccessful : Attempt(e, r)

SpecScenarioA == Init /\ [][NextScenarioA]_vars

(* Scenario B: page.goto is mocked to fail on all 3 tries of every attempt, *)
(* so unsubscribeFromEmail rethrows lastError into its own catch.          *)

NavigationFailed ==
    {r \in UnsubscribeResults : r.message = "Failed to process unsubscribe"}

NextScenarioB ==
    \/ Step
    \/ \E e \in EmailIds, r \in NavigationFailed : Attempt(e, r)

SpecScenarioB == Init /\ [][NextScenarioB]_vars

(* Page-level failures: every page is classified error, or no strategy of   *)
(* the action executor succeeds and the final check answers success: false. *)

PageLevelFailures ==
    {r \in UnsubscribeResults :
        ~r.success /\ r.message \in {"Error on unsubscribe page", "page message"}}

NextPageLevelFailures ==
    \/ Step
    \/ \E e \in EmailIds, r \in PageLevelFailures : Attempt(e, r)

SpecPageLevelFailures == Init /\ [][NextPageLevelFailures]_vars

(* The service alone: MaxCalls concurrent calls of unsubscribeFromEmail.   *)

SpecService == Init /\ [][NextService]_vars

(* The routes over a worker whose database and process never fail.         *)

NextRoutes ==
    \/ \E body \in AsyncBatchBodies : SubmitAsyncBatch(body)
    \/ \E jobId \in JobIds, userId \in Users : GetStatus(jobId, userId)
    \/ \E e \in EmailIds : StartTask(e)
    \/ \E e \in EmailIds : SetProcessing(e)
    \/ \E e \in EmailIds : SetInProgress(e)
    \/ \E e \in EmailIds, r \in UnsubscribeResults : Attempt(e, r)
    \/ \E e \in EmailIds : SetEmailResult(e)
    \/ \E e \in EmailIds : InsertResult(e)
    \/ \E e \in EmailIds : UpdateCounters(e)
    \/ \E e \in EmailIds : MarkCompleted(e)
    \/ \E e \in EmailIds : Return(e)

SpecRoutes == Init /\ [][NextRoutes]_vars

(* The synchronous route alone, over a database that can fail.             *)

NextSyncBatch ==
    \/ \E body \in SyncBatchBodies : PostBatch(body)
    \/ \E e \in EmailIds, r \in UnsubscribeResults : SyncTry(e, r)
    \/ SyncCatch
    \/ SyncRespond
    \/ DbFail
    \/ DbRecover

SpecSyncBatch == Init /\ [][NextSyncBatch]_vars

(* ------------------------------ claims --------------------------------- *)

Enqueued == {e \in EmailIds : queue[e].state # "none"}

\* Every task of the batch is in a terminal queue state.
Quiescent ==
    /\ job # NoJob
    /\ \A e \in Enqueued : queue[e].state \in {"completed", "failed"}

\* C1: processed_count never exceeds total_emails, retries and redelivery
\* of stalled tasks included.
C1_ProcessedAtMostTotal == job.processed_count <= job.total_emails

\* C2: in every reachable state success_count + failed_count equals
\* processed_count.
C2_CountersAddUp == job.success_count + job.failed_count = job.processed_count

\* C2 witness: two handlers have just counted, one on the success path and
\* one on the failure path, and neither has finished.
C2_Witness ==
    \E e1, e2 \in EmailIds :
        /\ At(e1, "markCompleted") /\ handler[e1].success
        /\ At(e2, "catchCompleted")
        /\ job.success_count >= 1 /\ job.failed_count >= 1

\* A step in which the handler of e executes its counter UPDATE.
CountsNow(e) ==
    \/ dbUp /\ At(e, "updateCounters") /\ handler'[e].pc \in {"markCompleted", "return"}
    \/ dbUp /\ At(e, "catchCounters") /\ handler'[e].pc \in {"catchCompleted", "rethrow"}

\* The counter the handler of e is about to bump.
Outcome(e) ==
    IF handler[e].pc = "updateCounters" /\ handler[e].success
    THEN "success_count" ELSE "failed_count"

\* C3: no counter update is lost, however the handlers interleave: every
\* counter UPDATE adds exactly one to processed_count and to the counter of
\* its outcome on top of what all earlier updates left, and leaves the other
\* counter alone.
C3_NoLostUpdate ==
    [][\A e \in EmailIds : CountsNow(e) =>
          /\ job'.processed_count = job.processed_count + 1
          /\ job'[Outcome(e)] = job[Outcome(e)] + 1
          /\ job'.success_count + job'.failed_count
                = job.success_count + job.failed_count + 1]_vars

\* C3 witness: two tasks of a batch of two reached their counter UPDATE
\* together, both have executed it and neither has finished; the counters
\* show both outcomes.
C3_Witness ==
    \E e1, e2 \in EmailIds :
        /\ e1 # e2
        /\ faults = 0
        /\ handler[e1].pc = "return" /\ handler[e1].success
        /\ handler[e2].pc = "markCompleted" /\ ~handler[e2].success
        /\ job.processed_count = 2
        /\ job.success_count = 1
        /\ job.failed_count = 1

\* C4: completed_at, once set, is never overwritten.
C4_CompletedAtWrittenOnce ==
    [][job.completed_at # NullTime => job'.completed_at = job.completed_at]_vars

StatusRank(status) ==
    CASE status = "absent" -> 0
      [] status = "pending" -> 1
      [] status = "processing" -> 2
      [] status = "completed" -> 3

\* C5: the status of a BatchJob only moves forward along
\* pending -> processing -> completed.
C5_StatusMonotonic ==
    [][StatusRank(job'.status) >= StatusRank(job.status)]_vars

\* C5 witness: the only task of a batch runs again after the job was
\* completed and has executed its UPDATE ... SET status = 'processing'.
C5_Witness ==
    /\ job.total_emails = 1
    /\ job.status = "completed"
    /\ \E e \in EmailIds : At(e, "setInProgress")

\* C6: at most one TaskResult row per email of the batch.
C6_OneResultPerTask == \A e \in EmailIds : RowsOf(e) <= 1

\* C7: a submitted BatchJob reaches completed: once all its tasks are done,
\* its status is completed.
C7_DoneMeansCompleted == Quiescent => job.status = "completed"

\* C8: with every page classified successful, a batch of N emails ends with
\* processed_count = N, status completed, success_count = N, failed_count = 0.
\* The counters never decrease, so on the way there failed_count stays 0 and
\* success_count stays within N.
C8_AllSuccessful ==
    /\ job.failed_count = 0
    /\ job.success_count <= job.total_emails
    /\ Quiescent =>
          /\ job.status = "completed"
          /\ job.processed_count = job.total_emails
          /\ job.success_count = job.total_emails

\* C9: a task whose navigation failed on all 3 tries gets exactly one
\* TaskResult, of success = false, and failed_count counts it once; it ends
\* completed in the queue without a retry, and the BatchJob is completed.
C9_NavigationFailure ==
    /\ \A e \in EmailIds :
          /\ CopiesIn(ResultRow(e, FALSE), unsubscribe_job_results) <= 1
          /\ CopiesIn(ResultRow(e, TRUE), unsubscribe_job_results) = 0
    /\ job.failed_count <= job.total_emails
    /\ Quiescent =>
          /\ job.status = "completed"
          /\ job.failed_count = job.total_emails
          /\ \A e \in Enqueued :
                /\ queue[e] = [state |-> "completed", attemptsMade |-> 0]
                /\ CopiesIn(ResultRow(e, FALSE), unsubscribe_job_results) = 1

\* C10: a task whose handler threw is run again, at most 3 times in all, and
\* once it is terminally failed a TaskResult of success = false is recorded
\* for it.
C10_TerminalFailureRecorded ==
    \A e \in EmailIds :
        /\ queue[e].attemptsMade <= attempts
        /\ queue[e].state = "failed" =>
              /\ queue[e].attemptsMade = attempts
              /\ CopiesIn(ResultRow(e, FALSE), unsubscribe_job_results) >= 1

\* C11: when creating the automation session fails, the error is rethrown out
\* of unsubscribeFromEmail and not converted into a result of success = false.
C11_SessionFailureRethrown ==
    \A c \in Calls :
        InCall(c, "returned") /\ invocation[c].caught = {"init failed"} =>
            invocation[c].threw /\ invocation[c].result = {}

\* C12: an exception raised during navigation, classification or action
\* execution is caught and converted into the result {success: false,
\* message: 'Failed to process unsubscribe', details: <error message>}; the
\* call returns normally.
C12_ExceptionBecomesResult ==
    \A c \in Calls :
        InCall(c, "returned")
        /\ invocation[c].caught \cap
              {"navigation failed", "classification failed", "action failed"} # {}
        => /\ ~invocation[c].threw
           /\ Cardinality(invocation[c].result) = 1
           /\ \A r \in invocation[c].result :
                 /\ r.success = FALSE
                 /\ r.message = "Failed to process unsubscribe"
                 /\ r.details \in invocation[c].caught

\* C12 witness: one call returned after its navigation failed on every turn of
\* the loop, another after its action executor threw.
C12_Witness ==
    \E c1, c2 \in Calls :
        /\ InCall(c1, "returned") /\ invocation[c1].caught = {"navigation failed"}
        /\ invocation[c1].i = maxRetries
        /\ InCall(c2, "returned") /\ invocation[c2].caught = {"action failed"}
        /\ invocation[c2].actions = 1

\* The tasks whose handler has executed its counter UPDATE.
Counted ==
    {e \in EmailIds :
        \/ queue[e].state = "completed"
        \/ queue[e].state = "active" /\ handler[e].pc \in {"markCompleted", "return"}}

\* C13: a task whose attempt returned a page-level failure is finished
\* normally by the worker and never re-attempted by the queue: as long as
\* every database write succeeds and no worker dies, the task is executed
\* once, gets one TaskResult of success = false and is counted once as failed.
C13_PageLevelFailureNotRetried ==
    /\ [](faults = 0 =>
            /\ \A e \in EmailIds :
                  /\ queue[e].attemptsMade = 0
                  /\ queue[e].state \notin {"delayed", "failed"}
                  /\ CopiesIn(ResultRow(e, TRUE), unsubscribe_job_results) = 0
                  /\ CopiesIn(ResultRow(e, FALSE), unsubscribe_job_results)
                        = IF e \in Counted \/ At(e, "updateCounters") THEN 1 ELSE 0
            /\ job.failed_count = Cardinality(Counted)
            /\ job.success_count = 0)
    /\ [][\A e \in EmailIds :
              queue[e].state = "completed" /\ faults' = 0 => queue'[e] = queue[e]]_vars

\* C13 witness: with no fault, both tasks of a batch ended completed in the
\* queue after a page-level failure, each counted once.
C13_Witness ==
    /\ faults = 0
    /\ job.total_emails = 2
    /\ job.failed_count = 2
    /\ job.status = "completed"
    /\ \A e \in Enqueued : queue[e] = [state |-> "completed", attemptsMade |-> 0]

\* C14: for every call of unsubscribeFromEmail in which a session was
\* acquired, close() of that session has been invoked exactly once when the
\* call returns, whatever the exit path.
C14_SessionClosedOnce ==
    \A c \in Calls :
        InCall(c, "returned") =>
            \A s \in invocation[c].stagehand : sessions[s].closeCalls = 1

\* The distinct requested emails that belong to the caller and have a link.
Wanted(body) == Range(body.emailIds) \cap EligibleIds

\* C15: async submit creates a BatchJob whose total_emails is the number of
\* distinct requested emails that belong to the caller and have a link, and
\* enqueues exactly one task for each of them and none for any other id;
\* unowned, link-less, unknown and duplicated ids are dropped without an error.
C15_SubmitCountsEligible ==
    [][\A body \in AsyncBatchBodies :
          SubmitAsyncBatch(body) /\ dbUp /\ body.isArray /\ Wanted(body) # {} =>
              /\ response'.status = 200
              /\ response'.totalEmails = Cardinality(Wanted(body))
              /\ job'.total_emails = Cardinality(Wanted(body))
              /\ job'.status = "pending"
              /\ \A e \in EmailIds :
                    queue'[e] = IF e \in Wanted(body)
                                THEN [state |-> "waiting", attemptsMade |-> 0]
                                ELSE NoTask]_vars

\* C15 witness: a submit was answered with totalEmails = 1 and one task waits
\* in the queue, none for the unowned or the link-less email.
C15_Witness ==
    /\ response.status = 200
    /\ response.totalEmails = 1
    /\ job.total_emails = 1
    /\ job.status = "pending"
    /\ Cardinality({e \in EmailIds : queue[e].state = "waiting"}) = 1
    /\ queue[UnownedId] = NoTask
    /\ queue[LinklessId] = NoTask

\* C16: when none of the requested emails is owned by the caller with a link,
\* async submit answers 404 and changes nothing: no BatchJob row is persisted
\* and no task is enqueued.
C16_NoneEligibleIs404 ==
    [][\A body \in AsyncBatchBodies :
          /\ SubmitAsyncBatch(body)
          /\ dbUp
          /\ body.isArray
          /\ Len(body.emailIds) > 0
          /\ Wanted(body) = {}
          => /\ response'.status = 404
             /\ job' = NoJob
             /\ UNCHANGED <<job, queue, emails, unsubscribe_job_results>>]_vars

\* C16 witness: a submit was answered 404; there is no BatchJob row and no task.
C16_Witness ==
    /\ response.status = 404
    /\ job = NoJob
    /\ Enqueued = {}
    /\ dbUp

\* C17: async submit with emailIds empty or not a list answers 400 before any
\* database query (also while the database is unreachable), and leaves the
\* BatchJob rows, the queue and the Email rows unchanged.
C17_BadRequestIs400 ==
    [][\A body \in AsyncBatchBodies :
          SubmitAsyncBatch(body) /\ (~body.isArray \/ body.emailIds = << >>) =>
              /\ response'.status = 400
              /\ UNCHANGED <<job, queue, emails, unsubscribe_job_results>>]_vars

\* C17 witness: a submit was answered 400 while the database was unreachable;
\* there is no BatchJob row and no task.
C17_Witness ==
    /\ response.status = 400
    /\ ~dbUp
    /\ job = NoJob
    /\ Enqueued = {}

\* C18: getStatus returns the snapshot of a BatchJob only to its owner: to
\* another user asking for the id of an existing BatchJob the answer is 404,
\* the same answer as for an id of no BatchJob.
C18_StatusOnlyForOwner ==
    [][\A userId \in Users :
          /\ GetStatus(BatchJobId, userId) /\ job # NoJob /\ userId # job.user_id
             => /\ response' = [status |-> 404, error |-> "Job not found"]
                /\ response' = StatusResponse(MissingJobId, userId)
          /\ GetStatus(BatchJobId, userId) /\ job # NoJob /\ userId = job.user_id
             => /\ response'.status = 200
                /\ response'.processedCount = job.processed_count
                /\ response'.jobStatus = job.status]_vars

\* C18 witness: the BatchJob exists and has counted a task, and a status
\* request for a well-formed id was answered 404.
C18_Witness ==
    /\ job.status = "processing"
    /\ job.processed_count = 1
    /\ response = [status |-> 404, error |-> "Job not found"]

\* C19: when the page is classified confirmation or already_unsubscribed, the
\* attempt returns success = true at once and performUnsubscribeAction is
\* invoked zero times.
C19_ImmediateSuccess ==
    \A c \in Calls :
        invocation[c].pageAnalysis.pageType \in {"confirmation", "already_unsubscribed"} =>
            /\ invocation[c].actions = 0
            /\ invocation[c].pc \in {"switch", "finally", "returned"}
            /\ InCall(c, "returned") =>
                  /\ ~invocation[c].threw
                  /\ Cardinality(invocation[c].result) = 1
                  /\ \A r \in invocation[c].result : r.success = TRUE

\* C19 witness: one call returned from a confirmation page and another from an
\* already_unsubscribed page, both with success = true and no action.
C19_Witness ==
    \E c1, c2 \in Calls :
        /\ InCall(c1, "returned")
        /\ invocation[c1].pageAnalysis.pageType = "confirmation"
        /\ invocation[c1].result # {}
        /\ \A r \in invocation[c1].result : r.message = "Unsubscribed successfully"
        /\ InCall(c2, "returned")
        /\ invocation[c2].pageAnalysis.pageType = "already_unsubscribed"
        /\ \A r \in invocation[c2].result : r.message = "Already unsubscribed"
        /\ invocation[c2].result # {}

\* C20: when the page is classified error, the attempt returns success = false
\* without invoking performUnsubscribeAction, and details is the page-reported
\* error text when there is one and the classifier's description otherwise.
C20_ErrorPage ==
    \A c \in Calls :
        invocation[c].pageAnalysis.pageType = "error" =>
            /\ invocation[c].actions = 0
            /\ invocation[c].pc \in {"switch", "finally", "returned"}
            /\ InCall(c, "returned") =>
                  /\ ~invocation[c].threw
                  /\ Cardinality(invocation[c].result) = 1
                  /\ \A r \in invocation[c].result :
                        /\ r.success = FALSE
                        /\ r.details =
                              IF invocation[c].pageAnalysis.errorMessage
                                    = {"page-reported error text"}
                              THEN "page-reported error text"
                              ELSE invocation[c].pageAnalysis.description

\* C20 witness: one call returned from an error page that reported its error
\* text, another from an error page without one.
C20_Witness ==
    \E c1, c2 \in Calls :
        /\ InCall(c1, "returned")
        /\ invocation[c1].pageAnalysis.pageType = "error"
        /\ invocation[c1].pageAnalysis.errorMessage = {"page-reported error text"}
        /\ \E r \in invocation[c1].result : r.details = "page-reported error text"
        /\ InCall(c2, "returned")
        /\ invocation[c2].pageAnalysis.pageType = "error"
        /\ invocation[c2].pageAnalysis.errorMessage = {}
        /\ \E r \in invocation[c2].result : r.details = "description"

C22_EmailStatusFollowsTask ==
    \A e \in EmailIds :
        /\ At(e, "attempt") => emails[e].unsubscribe_status = "in_progress"
        /\ At(e, "return") =>
              emails[e].unsubscribe_status
                 = IF handler[e].success THEN "completed" ELSE "failed"
        /\ At(e, "rethrow") => emails[e].unsubscribe_status = "failed"

\* C24: in the synchronous variant a failure while processing one email (an
\* exception of the attempt or of a database write for that email) never
\* aborts the rest of the batch: the response holds exactly one result per
\* eligible email and summary.successful + summary.failed = summary.total =
\* the number of eligible emails.
C24_SyncFailuresIsolated ==
    sync.pc = "answered" /\ sync.rows # {} =>
        /\ response.status = 200
        /\ response.summary.total = Cardinality(sync.rows)
        /\ response.summary.successful + response.summary.failed = response.summary.total
        /\ \A e \in sync.rows :
              Cardinality({i \in DOMAIN response.results :
                              response.results[i].emailId = e}) = 1

\* C25: the synchronous variant runs the attempt inline exactly once for
\* every eligible email, after marking it in_progress, and the result it
\* returns for the email carries the attempt's success flag and message.
C25_SyncRunsAttempts ==
    sync.pc = "answered" /\ response.status = 200 =>
        \A e \in sync.rows :
            /\ e \in sync.attempted
            /\ \A i \in DOMAIN response.results :
                  response.results[i].emailId = e =>
                      \E r \in UnsubscribeResults :
                          /\ response.results[i].success = r.success
                          /\ response.results[i].message = r.message

\* C26: the synchronous route leaves the BatchJob table and the task queue
\* unchanged on every path, and a request of more than 10 emailIds is
\* answered 400 before any Email row is written or any attempt is run.
C26_SyncFrame ==
    /\ [][sync' # sync => UNCHANGED <<job, queue, unsubscribe_job_results>>]_vars
    /\ [][\A body \in SyncBatchBodies :
             PostBatch(body) /\ body.isArray /\ Len(body.emailIds) > 10 =>
                 /\ response'.status = 400
                 /\ sync'.pc = "answered"
                 /\ sync'.attempted = {}
                 /\ UNCHANGED <<emails, job, queue>>]_vars

\* C26 witness: a request of 11 emailIds was answered 400, with no Email row
\* written and no attempt run.
C26_Witness ==
    /\ response = [status |-> 400, error |-> "Maximum 10 emails can be processed at once"]
    /\ sync.pc = "answered"
    /\ sync.attempted = {}
    /\ \A e \in EmailIds : emails[e].unsubscribe_status = "pending"

\* C23: when the same email is in two overlapping batches, after both tasks
\* have finished the Email's unsubscribe_status and unsubscribe_result are
\* those of the task that made its final write last, and each BatchJob has
\* counted the outcome of its own task.
C23_LastWriteWins ==
    (\A b \in Batches : OverlapAt(b, "completed")) =>
        /\ \A b \in overlap.lastWrite :
              /\ overlap.email.unsubscribe_status
                    = IF overlap.tasks[b].success THEN "completed" ELSE "failed"
              /\ overlap.email.unsubscribe_result = overlap.tasks[b].message
        /\ overlap.lastWrite # {}
        /\ \A b \in Batches :
              /\ overlap.jobs[b].processed_count = 1
              /\ overlap.jobs[b].success_count = IF overlap.tasks[b].success THEN 1 ELSE 0
              /\ overlap.jobs[b].failed_count = IF overlap.tasks[b].success THEN 0 ELSE 1
              /\ overlap.jobs[b].status = "completed"

\* The two tasks are inside their attempts at once, the Email row in_progress
\* for both: nothing excludes one while the other runs.
BothAttempting == \A b \in Batches : OverlapAt(b, "attempt")

\* C23 witness: both tasks have finished; the task of batch A succeeded, the
\* task of batch B failed and wrote last, and the Email row is failed.
C23_Witness ==
    /\ \A b \in Batches : OverlapAt(b, "completed")
    /\ overlap.tasks["A"].success
    /\ ~overlap.tasks["B"].success
    /\ overlap.lastWrite = {"B"}
    /\ overlap.email.unsubscribe_status = "failed"
    /\ overlap.jobs["A"].success_count = 1
    /\ overlap.jobs["B"].failed_count = 1

MaxTotal == 40

\* A row of unsubscribe_jobs after the worker has counted p of its t tasks.
CountedJob(p, t) ==
    [NoJob EXCEPT !.user_id = Caller,
                  !.total_emails = t,
                  !.processed_count = p,
                  !.success_count = p,
                  !.status = "processing"]

\* The state of Init but for the row of the BatchJob.
InitWithJob(row) ==
    /\ job = row
    /\ emails = [e \in EmailIds |->
                    [user_id |-> IF e = UnownedId THEN OtherUser ELSE Caller,
                     unsubscribe_link |-> IF e = LinklessId THEN NULL ELSE "link",
                     unsubscribe_status |-> "pending"]]
    /\ unsubscribe_job_results = EmptyBag
    /\ queue = [e \in EmailIds |-> NoTask]
    /\ handler = [e \in EmailIds |-> Idle]
    /\ faults = 0
    /\ dbUp = TRUE
    /\ response = NoResponse
    /\ sync = NoRequest
    /\ overlap = NoOverlap
    /\ pool = [t \in PoolTasks |-> "none"]
    /\ invocation = [c \in Calls |-> NotCalled]
    /\ this_stagehand = {}
    /\ sessions = [s \in Calls |-> NoSession]
    /\ executor = NotExecuting

InitProgress == \E t \in 0..MaxTotal : \E p \in 0..t : InitWithJob(CountedJob(p, t))

NextProgress == \E jobId \in JobIds, userId \in Users : GetStatus(jobId, userId)

SpecProgress == InitProgress /\ [][NextProgress]_vars

\* C28: progressPercentage is the integer nearest to processed_count /
\* total_emails * 100 (halves up), and 0 when total_emails is 0.
C28_ProgressIsRounded ==
    (response.status = 200) =>
        LET p == response.processedCount
            t == response.totalEmails
            pct == response.progressPercentage
        IN IF t = 0 THEN pct = 0
           ELSE 2 * pct * t <= 200 * p + t /\ 200 * p + t < 2 * (pct + 1) * t


\* C29: whenever the BatchJob's status is completed, every Task of the batch
\* is in a terminal queue state (completed or failed): none is waiting,
\* delayed for a retry or active, but for the handler that has just marked
\* the job completed and is about to return or to throw.
C29_CompletedMeansAllTerminal ==
    job.status = "completed" =>
        \A e \in EmailIds :
            \/ queue[e].state \in {"none", "completed", "failed"}
            \/ At(e, "return")
            \/ At(e, "rethrow")


\* C30: one execution of the handler inserts at most one row into
\* unsubscribe_job_results and increments processed_count at most once, also
\* when a statement after the increment of the success path throws and the
\* catch path runs.
C30_OneInsertOneIncrement ==
    \A e \in EmailIds : handler[e].inserts <= 1 /\ handler[e].increments <= 1


\* C31: when calls of unsubscribeFromEmail on the shared instance overlap,
\* each call holds the session it created itself, no session has close()
\* invoked twice, and a session whose creator has returned is not left open.
C31_OwnSessionOnly ==
    \A c \in Calls :
        /\ invocation[c].stagehand \subseteq {c}
        /\ sessions[c].closeCalls <= 1
        /\ InCall(c, "returned") => sessions[c].state # "ready"


(* ------- POST /unsubscribe/async/batch when unsubscribeQueue.add rejects ------- *)

\* The route when the queue's store is unreachable for some of the
\* unsubscribeQueue.add calls: the row of the BatchJob is inserted first, the
\* adds are all started, those of `added` resolve, Promise.all rejects and the
\* catch answers 500.
SubmitAsyncBatchAddRejects(body, added) ==
    /\ job = NoJob
    /\ ~BadRequest(body)
    /\ dbUp
    /\ LET rows == EligibleRows(Caller, Range(body.emailIds)) IN
       /\ ~NoneEligible(rows)
       /\ added \subseteq rows
       /\ added # rows
       /\ job' = NewBatchJob(rows)
       /\ queue' = [e \in EmailIds |->
                      IF e \in added
                      THEN [state |-> "waiting", attemptsMade |-> 0]
                      ELSE queue[e]]
       /\ response' = [status |-> 500]
    /\ UNCHANGED <<emails, unsubscribe_job_results, handler, faults, dbUp>>
    /\ UNCHANGED <<sync, overlap, pool, serviceVars>>

NextAddRejects ==
    \/ Next
    \/ \E body \in AsyncBatchBodies, added \in SUBSET EmailIds :
          SubmitAsyncBatchAddRejects(body, added)

SpecAddRejects == Init /\ [][NextAddRejects]_vars

\* C32: whenever the row of a BatchJob exists, the number of tasks enqueued
\* for it equals its total_emails, also when enqueueing failed part-way and
\* async submit answered with an error.
C32_TasksMatchTotal ==
    job # NoJob => Cardinality({e \in EmailIds : queue[e].state # "none"}) = job.total_emails


\* C33: whenever no handler is executing, the rows of unsubscribe_job_results
\* are as many as processed_count and those with success = true as many as
\* success_count, also after executions in which a database write failed.
C33_RowsMatchCounters ==
    Active = {} =>
        /\ BagCardinality(unsubscribe_job_results) = job.processed_count
        /\ BagCardinality(unsubscribe_job_results)
              - BagCardinality([r \in {x \in BagToSet(unsubscribe_job_results) : ~x.success}
                                   |-> unsubscribe_job_results[r]])
              = job.success_count


\* C34: once the task of an email is in a terminal queue state (completed or
\* failed), the email's unsubscribe_status is completed or failed, never
\* in_progress, also when database writes failed during its executions.
C34_TerminalTaskSettlesEmail ==
    \A e \in EmailIds :
        queue[e].state \in {"completed", "failed"} =>
            emails[e].unsubscribe_status \in {"completed", "failed"}


\* C35: a BatchJob with processed_count > 0 has status processing or
\* completed, never pending: no outcome is counted before the job has left
\* pending.
C35_CountedMeansStarted ==
    job.processed_count > 0 => job.status \in {"processing", "completed"}


(* ---------------- UnsubscribeService.performUnsubscribeAction ---------------- *)

\* const actions = [...]: the strategies, in the order of the array
actions ==
    <<"click the unsubscribe button",
      "click the \"Unsubscribe\" button",
      "click the confirm unsubscribe button",
      "click the remove me button",
      "click the opt out button",
      "click the button that says \"Unsubscribe\"",
      "fill out and submit the unsubscribe form",
      "click any button that will unsubscribe me from emails">>

\* What page.extract can answer to the quick check; an optional boolean of
\* the zod schema is the set of its value.
QuickChecks == [actionWorked : BOOLEAN, hasResubscribeButton : {{}, {TRUE}, {FALSE}}]

ExecutorUnchanged ==
    UNCHANGED <<emails, job, unsubscribe_job_results, queue, handler, faults, dbUp,
                response, sync, overlap, pool, invocation, this_stagehand, sessions>>

\* Mutant of Worked: the check reads actionWorked alone.
WorkedByFlagOnly(quickCheck) == quickCheck.actionWorked

\* if (quickCheck.actionWorked || quickCheck.hasResubscribeButton === true)
Worked(quickCheck) == quickCheck.actionWorked \/ quickCheck.hasResubscribeButton = {TRUE}

\* The for loop goes to its next element, or ends and the function returns.
NextAction(ex) ==
    IF ex.i + 1 < Len(actions)
    THEN [ex EXCEPT !.pc = "act", !.i = @ + 1]
    ELSE [ex EXCEPT !.pc = "returned"]

\* performUnsubscribeAction(page) is called: the loop starts at actions[0].
PerformCalled ==
    /\ executor.pc = "notCalled"
    /\ executor' = [executor EXCEPT !.pc = "act"]
    /\ ExecutorUnchanged

\* await page.act(action) and the wait after it: resolved, the quick check
\* follows; rejected, the catch of the strategy logs and continues.
PageAct(resolved) ==
    /\ executor.pc = "act"
    /\ LET acted == [executor EXCEPT !.tried = Append(@,
                        [action |-> actions[executor.i + 1],
                         acted |-> resolved, quickCheck |-> {}])]
       IN executor' = IF resolved THEN [acted EXCEPT !.pc = "quickCheck"]
                      ELSE NextAction(acted)
    /\ ExecutorUnchanged

\* const quickCheck = await page.extract(...) resolves: break when it worked.
QuickCheck(quickCheck) ==
    /\ executor.pc = "quickCheck"
    /\ LET checked == [executor EXCEPT !.tried[Len(executor.tried)].quickCheck = {quickCheck}]
       IN executor' = IF Worked(quickCheck) THEN [checked EXCEPT !.pc = "returned"]
                      ELSE NextAction(checked)
    /\ ExecutorUnchanged

\* page.extract of the quick check rejects: the catch of the strategy continues.
QuickCheckThrows ==
    /\ executor.pc = "quickCheck"
    /\ executor' = NextAction(executor)
    /\ ExecutorUnchanged

NextExecutor ==
    \/ PerformCalled
    \/ \E resolved \in BOOLEAN : PageAct(resolved)
    \/ \E quickCheck \in QuickChecks : QuickCheck(quickCheck)
    \/ QuickCheckThrows

SpecExecutor == Init /\ [][NextExecutor]_vars

\* The check of a strategy tried passed: the action worked or the
\* resubscribe control is present.
Passed(strategy) ==
    \E q \in strategy.quickCheck : q.actionWorked \/ q.hasResubscribeButton = {TRUE}

\* C36: the strategies are tried in the order of the list, one at a time; the
\* loop stops after the first one whose check passes (action worked or
\* resubscribe control present) and tries none after it; a strategy whose
\* action or check throws is skipped and the next is tried; when none passes
\* the function returns after the last strategy (returning is its only exit).
C36_StrategiesInOrder ==
    LET tried == executor.tried IN
    /\ Len(tried) <= Len(actions)
    /\ \A k \in 1..Len(tried) : tried[k].action = actions[k]
    /\ \A k \in 1..Len(tried) : Passed(tried[k]) => k = Len(tried) /\ executor.pc = "returned"
    /\ executor.pc = "returned" =>
          (Len(tried) = Len(actions) \/ Passed(tried[Len(tried)]))
    /\ executor.pc \in {"act", "quickCheck"} =>
          Len(tried) = executor.i + (IF executor.pc = "act" THEN 0 ELSE 1)

\* C36 witness, stop at the first pass: the first strategy's action threw, the
\* second's check threw, the third passed by the resubscribe control alone
\* and the function returned.
C36_Witness ==
    /\ executor.pc = "returned"
    /\ Len(executor.tried) = 3
    /\ ~executor.tried[1].acted
    /\ executor.tried[2].acted /\ executor.tried[2].quickCheck = {}
    /\ Passed(executor.tried[3])
    /\ \A q \in executor.tried[3].quickCheck : ~q.actionWorked


\* C37: within one attempt page.goto is called at most 3 times and never
\* again after a call of it has resolved; when all 3 calls fail the classifier
\* and the action executor are not invoked and the attempt ends with
\* success = false.
C37_NavigationRetries ==
    /\ [](\A c \in Calls :
            LET inv == invocation[c] IN
            /\ inv.loads <= 3
            /\ InCall(c, "goto") => inv.loads = inv.i
            /\ inv.i = 3 =>
                  /\ inv.loads = 3
                  /\ inv.pc \in {"finally", "returned"}
                  /\ inv.pageAnalysis = NoAnalysis
                  /\ inv.actions = 0
                  /\ inv.extracted = {}
                  /\ \A result \in inv.result : ~result.success
                  /\ inv.result # {})
    /\ [][\A c \in Calls :
            ~InCall(c, "goto") => invocation'[c].loads = invocation[c].loads]_vars

\* C37 witness: a call whose three page loads all failed has returned, and
\* another call has gone on to a result after its second load resolved.
C37_Witness ==
    \E c, d \in Calls :
        /\ InCall(c, "returned") /\ invocation[c].i = 3
        /\ InCall(d, "returned") /\ invocation[d].i = 1 /\ invocation[d].loads = 2
        /\ invocation[d].pageAnalysis # NoAnalysis


\* C38: in every reachable state of the BatchJob the progressPercentage that
\* getStatus answers to its owner lies between 0 and 100.
C38_PercentageInRange ==
    job # NoJob /\ dbUp =>
        StatusResponse(BatchJobId, job.user_id).progressPercentage \in 0..100


\* The largest total_emails of the rows one task short of done.
MaxNearTotal == 200

\* Rows with every task counted, or every task but one.
InitNearlyDone ==
    \E t \in 1..MaxNearTotal : \E p \in {t - 1, t} : InitWithJob(CountedJob(p, t))

SpecNearlyDone == InitNearlyDone /\ [][NextProgress]_vars

\* C39: getStatus answers progressPercentage = 100 only for a row with
\* processed_count >= total_emails.
C39_HundredMeansDone ==
    response.status = 200 /\ response.progressPercentage = 100 =>
        response.processedCount >= response.totalEmails

====
